---- MODULE Spec2Model ----
(***************************************************************************)
(* Model of the SkinVision AI backend: the upload / analyze HTTP handlers  *)
(* (app/api/routes/skin_analysis.py) over the upload directory, and the    *)
(* rule-based recommendation engine                                        *)
(* (app/services/recommendation_engine.py).                                *)
(*                                                                         *)
(* Strings that the code inspects (file names, upload ids, price ranges,   *)
(* usage frequencies) are sequences of one-character strings, so that      *)
(* split('.'), startswith and `in` are computed, not assumed.              *)
(* Fractions are integers: confidences and scores are in hundredths.       *)
(***************************************************************************)
EXTENDS Integers, Sequences, FiniteSets, TLC

VARIABLES
    dirExists,      \* settings.UPLOAD_DIRECTORY exists on disk
    files,          \* the files in settings.UPLOAD_DIRECTORY: [name, size, kind]
    returned,       \* upload_ids returned by successful /upload-image calls
    request,        \* the request handled last
    response,       \* the outcome of the request handled last
    engine,         \* the catalogs of the shared RecommendationEngine object
    pending,        \* /recommend requests received and not yet answered
    alone,          \* what a freshly constructed engine answers to each request
    engineIn,       \* arguments of the engine function under study
    engineOut       \* its result

vars ==
    <<dirExists, files, returned, request, response,
      engine, pending, alone, engineIn, engineOut>>

httpVars == <<dirExists, files, returned, request, response>>
engineState == <<engine, pending, alone>>
engineVars == <<engineState, engineIn, engineOut>>

----------------------------------------------------------------------------
(* Bounds of the model *)

\* number of accepted uploads in one run
MaxUploads == 2
\* length of a generated identifier (a uuid4 string has a fixed length)
IdLen == 2

----------------------------------------------------------------------------
(* Sequences of characters *)

IsPrefix(p, s) ==
    /\ Len(p) <= Len(s)
    /\ \A i \in 1..Len(p) : s[i] = p[i]

\* Python: f.startswith(upload_id)
StartsWith(f, upload_id) == IsPrefix(upload_id, f)

\* Python: sub in s
Contains(sub, s) ==
    \E k \in 0..(Len(s) - Len(sub)) :
        \A i \in 1..Len(sub) : s[k + i] = sub[i]

\* Python: s.split('.')[-1]  (the characters after the last '.')
LastDot(s) ==
    IF \E i \in 1..Len(s) : s[i] = "."
    THEN CHOOSE i \in 1..Len(s) :
            /\ s[i] = "."
            /\ \A j \in (i + 1)..Len(s) : s[j] # "."
    ELSE 0

SplitLast(s) == SubSeq(s, LastDot(s) + 1, Len(s))

SeqsUpTo(S, n) == UNION {[1..k -> S] : k \in 0..n}

----------------------------------------------------------------------------
(* app/core/config.py *)

MAX_FILE_SIZE == 10 * 1024 * 1024

ALLOWED_IMAGE_TYPES == {"image/jpeg", "image/png", "image/jpg"}

----------------------------------------------------------------------------
(* Requests of the HTTP handlers *)

IdChars == {"a", "b"}

\* str(uuid.uuid4()): identifiers of one fixed length
Uuids == [1..IdLen -> IdChars]

\* an identifier that is the same for every upload
FreshUuids_Constant == {[i \in 1..IdLen |-> "a"]}

\* uuid4 is taken to be collision free: a new identifier differs from the
\* ones generated before
FreshUuids == {u \in Uuids : u \notin returned}

ContentTypes == {"image/jpeg", "image/png", "image/gif"}

\* what the uploaded bytes decode to
BodyKinds == {"face", "noface", "corrupt"}

\* uploaded parts, by client file name and body length: an empty body named
\* "p" (no extension), and bodies of exactly MAX_FILE_SIZE bytes and of one
\* byte more named "p.png"
Uploads ==
    { [filename |-> <<"p">>, size |-> 0],
      [filename |-> <<"p", ".", "p", "n", "g">>, size |-> MAX_FILE_SIZE],
      [filename |-> <<"p", ".", "p", "n", "g">>, size |-> MAX_FILE_SIZE + 1] }

\* upload_id form values: non-empty strings (the form field is required)
UploadIds == SeqsUpTo(IdChars, IdLen) \ {<<>>}

\* what the claims read of a request: the operation, the declared
\* content-type and the body length of an upload, the upload_id of an analysis
NoRequest ==
    [op |-> "none", content_type |-> "", size |-> 0, upload_id |-> <<>>]

\* fields of an outcome; status 0: no request handled yet
NoResponse ==
    [status |-> 0, detail |-> "", body_read |-> FALSE, processed |-> FALSE,
     face_detected |-> "unknown", upload_id |-> <<>>, filename |-> <<>>,
     file_size |-> 0, image_url |-> <<>>, file |-> <<>>]

NoCall == [fn |-> "none"]

NoResult == [fn |-> "none"]

----------------------------------------------------------------------------
(* POST /upload-image *)

\* a type check on the "image/" family instead of the allow-list
TypeAllowed_AnyImage(content_type) ==
    content_type \in ALLOWED_IMAGE_TYPES \cup {"image/gif"}

TypeAllowed(content_type) == content_type \in ALLOWED_IMAGE_TYPES

\* a size check that also rejects a body of exactly MAX_FILE_SIZE bytes
FileTooLarge_Inclusive(size) == size >= MAX_FILE_SIZE

FileTooLarge(size) == size > MAX_FILE_SIZE

\* file.filename.split('.')[-1] if '.' in file.filename else 'jpg'
FileExtension(filename) ==
    IF Contains(<<".">>, filename) THEN SplitLast(filename) ELSE <<"j", "p", "g">>

\* f"{upload_id}.{file_extension}"
UploadFilename(upload_id, filename) ==
    upload_id \o <<".">> \o FileExtension(filename)

\* f"/uploads/{filename}"
ImageUrl(fname) == <<"/", "u", "p", "l", "o", "a", "d", "s", "/">> \o fname

\* open(file_path, "wb") ; buffer.write(contents): creates or replaces the file
WriteFile(dir, fname, size, kind) ==
    {f \in dir : f.name # fname} \cup {[name |-> fname, size |-> size, kind |-> kind]}

upload_image(content_type, size, filename, kind) ==
    /\ request' = [NoRequest EXCEPT !.op = "upload", !.content_type = content_type,
                                    !.size = size]
    /\ IF ~TypeAllowed(content_type)
       THEN /\ response' = [NoResponse EXCEPT !.status = 400, !.detail = "Invalid file type"]
            /\ UNCHANGED <<dirExists, files, returned>>
       ELSE IF FileTooLarge(size)
       THEN /\ response' = [NoResponse EXCEPT !.status = 400, !.detail = "File too large",
                                              !.body_read = TRUE]
            /\ UNCHANGED <<dirExists, files, returned>>
       ELSE /\ Cardinality(returned) < MaxUploads
            /\ \E upload_id \in FreshUuids :
                 LET fname == UploadFilename(upload_id, filename) IN
                 /\ dirExists' = TRUE
                 /\ files' = WriteFile(files, fname, size, kind)
                 /\ returned' = returned \cup {upload_id}
                 /\ response' = [NoResponse EXCEPT !.status = 200, !.body_read = TRUE,
                                                   !.upload_id = upload_id,
                                                   !.filename = fname,
                                                   !.file_size = size,
                                                   !.image_url = ImageUrl(fname)]
    /\ UNCHANGED engineVars

----------------------------------------------------------------------------
(* POST /analyze *)

\* image_processor.process_image, detect_face and
\* skin_analyzer.analyze_skin_conditions on the chosen file: what the body of
\* the try block raises or returns
TryAnalyze(f) ==
    IF f.kind = "corrupt"
    THEN [raised |-> "ValueError", status |-> 0, detail |-> "Could not load image",
          processed |-> TRUE, face_detected |-> "unknown"]
    ELSE IF f.kind = "noface"
    THEN [raised |-> "HTTPException", status |-> 400,
          detail |-> "No face detected in image",
          processed |-> TRUE, face_detected |-> "no"]
    ELSE [raised |-> "None", status |-> 200, detail |-> "",
          processed |-> TRUE, face_detected |-> "yes"]

\* except Exception as e: raise HTTPException(status_code=500, ...)
\* HTTPException is an Exception, so the handler catches it as well
ExceptException(r) ==
    IF r.raised = "None"
    THEN r
    ELSE [r EXCEPT !.status = 500, !.detail = "Analysis failed"]

analyze_skin(upload_id) ==
    /\ request' = [NoRequest EXCEPT !.op = "analyze", !.upload_id = upload_id]
    /\ IF ~dirExists
       THEN \* os.listdir raises FileNotFoundError outside the try block
            response' = [NoResponse EXCEPT !.status = 500,
                                          !.detail = "Internal Server Error"]
       ELSE LET uploaded_files == {f \in files : StartsWith(f.name, upload_id)} IN
            IF uploaded_files = {}
            THEN response' = [NoResponse EXCEPT !.status = 404,
                                               !.detail = "Upload not found"]
            ELSE \* uploaded_files[0]: os.listdir returns the names in arbitrary order
                 \E f \in uploaded_files :
                    LET r == ExceptException(TryAnalyze(f)) IN
                    response' = [NoResponse EXCEPT !.status = r.status,
                                                  !.detail = r.detail,
                                                  !.processed = r.processed,
                                                  !.face_detected = r.face_detected,
                                                  !.file = f.name]
    /\ UNCHANGED <<dirExists, files, returned, engineVars>>

----------------------------------------------------------------------------
(* RecommendationEngine._initialize_product_database *)

\* The catalog entries, without the fields that are only displayed (name,
\* brand, benefits).  usage_frequency and price_range are character
\* sequences; recommendation_confidence and personalization_score are
\* hundredths.

cleanser_001 ==
    [product_id |-> "cleanser_001",
     category |-> "cleanser",
     key_ingredients |-> <<"glycerin">>,
     usage_frequency |-> <<"t", "w", "i", "c", "e", " ", "d", "a", "i", "l", "y">>,
     time_of_day |-> "both",
     application_order |-> 1,
     target_conditions |-> <<"oiliness", "acne">>,
     price_range |-> <<"$", "8", "-", "1", "5">>,
     recommendation_confidence |-> 90,
     personalization_score |-> 70]

cleanser_002 ==
    [product_id |-> "cleanser_002",
     category |-> "cleanser",
     key_ingredients |-> <<"ceramides", "hyaluronic_acid">>,
     usage_frequency |-> <<"t", "w", "i", "c", "e", " ", "d", "a", "i", "l", "y">>,
     time_of_day |-> "both",
     application_order |-> 1,
     target_conditions |-> <<"dryness">>,
     price_range |-> <<"$", "1", "2", "-", "2", "0">>,
     recommendation_confidence |-> 85,
     personalization_score |-> 80]

serum_001 ==
    [product_id |-> "serum_001",
     category |-> "serum",
     key_ingredients |-> <<"niacinamide">>,
     usage_frequency |-> <<"o", "n", "c", "e", " ", "d", "a", "i", "l", "y">>,
     time_of_day |-> "both",
     application_order |-> 3,
     target_conditions |-> <<"acne", "oiliness", "pores">>,
     price_range |-> <<"$", "6", "-", "1", "2">>,
     recommendation_confidence |-> 95,
     personalization_score |-> 90]

serum_002 ==
    [product_id |-> "serum_002",
     category |-> "serum",
     key_ingredients |-> <<"vitamin_c">>,
     usage_frequency |-> <<"o", "n", "c", "e", " ", "d", "a", "i", "l", "y">>,
     time_of_day |-> "morning",
     application_order |-> 3,
     target_conditions |-> <<"dark_spots", "pigmentation">>,
     price_range |-> <<"$", "1", "5", "-", "2", "5">>,
     recommendation_confidence |-> 88,
     personalization_score |-> 85]

serum_003 ==
    [product_id |-> "serum_003",
     category |-> "serum",
     key_ingredients |-> <<"hyaluronic_acid">>,
     usage_frequency |-> <<"t", "w", "i", "c", "e", " ", "d", "a", "i", "l", "y">>,
     time_of_day |-> "both",
     application_order |-> 3,
     target_conditions |-> <<"dryness">>,
     price_range |-> <<"$", "1", "0", "-", "1", "8">>,
     recommendation_confidence |-> 92,
     personalization_score |-> 88]

treatment_001 ==
    [product_id |-> "treatment_001",
     category |-> "treatment",
     key_ingredients |-> <<"retinol">>,
     usage_frequency |-> <<"3", " ", "t", "i", "m", "e", "s", " ", "p", "e", "r", " ", "w", "e", "e", "k">>,
     time_of_day |-> "evening",
     application_order |-> 4,
     target_conditions |-> <<"wrinkles", "acne">>,
     price_range |-> <<"$", "2", "0", "-", "3", "5">>,
     recommendation_confidence |-> 90,
     personalization_score |-> 85]

treatment_002 ==
    [product_id |-> "treatment_002",
     category |-> "treatment",
     key_ingredients |-> <<"salicylic_acid">>,
     usage_frequency |-> <<"e", "v", "e", "r", "y", " ", "o", "t", "h", "e", "r", " ", "d", "a", "y">>,
     time_of_day |-> "evening",
     application_order |-> 4,
     target_conditions |-> <<"acne", "pores">>,
     price_range |-> <<"$", "1", "2", "-", "2", "2">>,
     recommendation_confidence |-> 87,
     personalization_score |-> 82]

moisturizer_001 ==
    [product_id |-> "moisturizer_001",
     category |-> "moisturizer",
     key_ingredients |-> <<"hyaluronic_acid", "niacinamide">>,
     usage_frequency |-> <<"t", "w", "i", "c", "e", " ", "d", "a", "i", "l", "y">>,
     time_of_day |-> "both",
     application_order |-> 5,
     target_conditions |-> <<"oiliness">>,
     price_range |-> <<"$", "1", "4", "-", "2", "4">>,
     recommendation_confidence |-> 88,
     personalization_score |-> 80]

moisturizer_002 ==
    [product_id |-> "moisturizer_002",
     category |-> "moisturizer",
     key_ingredients |-> <<"ceramides", "peptides">>,
     usage_frequency |-> <<"t", "w", "i", "c", "e", " ", "d", "a", "i", "l", "y">>,
     time_of_day |-> "both",
     application_order |-> 5,
     target_conditions |-> <<"dryness", "wrinkles">>,
     price_range |-> <<"$", "1", "8", "-", "3", "0">>,
     recommendation_confidence |-> 90,
     personalization_score |-> 85]

sunscreen_001 ==
    [product_id |-> "sunscreen_001",
     category |-> "sunscreen",
     key_ingredients |-> <<>>,
     usage_frequency |-> <<"d", "a", "i", "l", "y">>,
     time_of_day |-> "morning",
     application_order |-> 6,
     target_conditions |-> <<>>,
     price_range |-> <<"$", "1", "0", "-", "1", "8">>,
     recommendation_confidence |-> 100,
     personalization_score |-> 90]

\* keyed by ProductCategory value, in the order of the source
product_database ==
    [cleanser |-> <<cleanser_001, cleanser_002>>,
     serum |-> <<serum_001, serum_002, serum_003>>,
     treatment |-> <<treatment_001, treatment_002>>,
     moisturizer |-> <<moisturizer_001, moisturizer_002>>,
     sunscreen |-> <<sunscreen_001>>]

\* RecommendationEngine._initialize_routine_templates
routine_templates ==
    [beginner |->
        [max_products |-> 4, max_actives |-> 1,
         required_categories |-> <<"cleanser", "moisturizer", "sunscreen">>],
     intermediate |->
        [max_products |-> 6, max_actives |-> 2,
         required_categories |-> <<"cleanser", "serum", "moisturizer", "sunscreen">>],
     advanced |->
        [max_products |-> 8, max_actives |-> 3,
         required_categories |->
            <<"cleanser", "serum", "treatment", "moisturizer", "sunscreen">>]]

\* SkinConditionType
SkinConditionTypes ==
    {"acne", "wrinkles", "dark_spots", "oiliness", "dryness", "pores", "pigmentation"}


\* RecommendationEngine._initialize_recommendation_rules; frequency
\* multipliers are tenths
recommendation_rules ==
    [acne |->
        [primary_ingredients |-> <<"salicylic_acid", "niacinamide">>,
         secondary_ingredients |-> <<"benzoyl_peroxide">>,
         avoid_ingredients |-> <<>>,
         product_categories |-> <<"cleanser", "serum", "treatment">>,
         severity_modifiers |-> [mild |-> 8, moderate |-> 10, severe |-> 12]],
     wrinkles |->
        [primary_ingredients |-> <<"retinol", "vitamin_c">>,
         secondary_ingredients |-> <<"peptides">>,
         avoid_ingredients |-> <<>>,
         product_categories |-> <<"serum", "treatment", "moisturizer">>,
         severity_modifiers |-> [mild |-> 8, moderate |-> 10, severe |-> 13]],
     dark_spots |->
        [primary_ingredients |-> <<"vitamin_c", "alpha_arbutin">>,
         secondary_ingredients |-> <<"niacinamide", "azelaic_acid">>,
         avoid_ingredients |-> <<>>,
         product_categories |-> <<"serum", "treatment">>,
         severity_modifiers |-> [mild |-> 9, moderate |-> 10, severe |-> 12]],
     oiliness |->
        [primary_ingredients |-> <<"niacinamide", "salicylic_acid">>,
         secondary_ingredients |-> <<"aha">>,
         avoid_ingredients |-> <<>>,
         product_categories |-> <<"cleanser", "serum", "moisturizer">>,
         severity_modifiers |-> [mild |-> 8, moderate |-> 10, severe |-> 11]],
     dryness |->
        [primary_ingredients |-> <<"hyaluronic_acid", "ceramides">>,
         secondary_ingredients |-> <<"glycerin">>,
         avoid_ingredients |-> <<"salicylic_acid", "aha">>,
         product_categories |-> <<"cleanser", "serum", "moisturizer">>,
         severity_modifiers |-> [mild |-> 10, moderate |-> 12, severe |-> 14]]]

\* RecommendationEngine.__init__: the three catalogs of the engine object
\* that the routes module constructs once and shares between requests
EngineInit ==
    [product_database |-> product_database,
     recommendation_rules |-> recommendation_rules,
     routine_templates |-> routine_templates]

----------------------------------------------------------------------------
(* The HTTP handlers over the upload directory *)

\* The directory settings.UPLOAD_DIRECTORY is relative to the working
\* directory and can be overridden by the environment; app/main.py creates
\* <project>/uploads, which is the same directory only when the server runs
\* from the project root.
Init ==
    /\ dirExists \in BOOLEAN
    /\ files = {}
    /\ returned = {}
    /\ request = NoRequest
    /\ response = NoResponse
    /\ engine = EngineInit
    /\ pending = {}
    /\ alone = <<>>
    /\ engineIn = NoCall
    /\ engineOut = NoResult

UploadStep ==
    \E content_type \in ContentTypes, u \in Uploads, kind \in BodyKinds :
        upload_image(content_type, u.size, u.filename, kind)

AnalyzeStep == \E upload_id \in UploadIds : analyze_skin(upload_id)

Next == UploadStep \/ AnalyzeStep

Spec == Init /\ [][Next]_vars

----------------------------------------------------------------------------
(* Properties of the HTTP handlers *)

Matching(upload_id) == {f \in files : StartsWith(f.name, upload_id)}

\* C1: /analyze on an upload whose file exists but shows no face answers 400,
\* and the handler's own exception handling does not turn the 400 into
\* another status.
C1_NoFaceAnswers400 ==
    (request.op = "analyze" /\ response.face_detected = "no")
        => response.status = 400

\* C2: /analyze with an upload_id that no file name of the upload directory
\* starts with answers 404 in every state of the directory, the state before
\* the first upload included, and runs no image processing.
C2_MissingUploadAnswers404 ==
    (request.op = "analyze" /\ Matching(request.upload_id) = {})
        => (response.status = 404 /\ ~response.processed)

\* C3: /upload-image with a content-type outside ALLOWED_IMAGE_TYPES answers
\* 400 before anything is written: the body is not read, the upload directory
\* is not created and its files are unchanged.
C3_RejectedTypeWritesNothing ==
    [][ (request'.op = "upload" /\ request'.content_type \notin ALLOWED_IMAGE_TYPES)
            => /\ response'.status = 400
               /\ ~response'.body_read
               /\ dirExists' = dirExists
               /\ files' = files ]_vars

C3_Witness ==
    /\ request.op = "upload"
    /\ request.content_type \notin ALLOWED_IMAGE_TYPES
    /\ response.status = 400
    /\ ~dirExists

\* C4: /upload-image with an allowed content-type answers 400 and leaves the
\* upload directory unchanged when the body is longer than MAX_FILE_SIZE;
\* a body of MAX_FILE_SIZE bytes or fewer is accepted and written as exactly
\* one new file "<upload_id>.<ext>", with file_size the number of bytes
\* written and image_url "/uploads/<upload_id>.<ext>".
C4_SizeLimit ==
    [][ (request'.op = "upload" /\ request'.content_type \in ALLOWED_IMAGE_TYPES)
            => IF request'.size > MAX_FILE_SIZE
               THEN /\ response'.status = 400
                    /\ dirExists' = dirExists
                    /\ files' = files
               ELSE /\ response'.status = 200
                    /\ \E f \in files' :
                         /\ files' \ files = {f}
                         /\ files \subseteq files'
                         /\ \A g \in files : g.name # f.name
                         /\ \E ext \in {<<"p", "n", "g">>, <<"j", "p", "g">>} :
                                f.name = response'.upload_id \o <<".">> \o ext
                         /\ f.size = request'.size
                         /\ response'.file_size = f.size
                         /\ response'.image_url =
                                <<"/", "u", "p", "l", "o", "a", "d", "s", "/">> \o f.name ]_vars

C4_Witness ==
    /\ request.op = "upload"
    /\ request.content_type \in ALLOWED_IMAGE_TYPES
    /\ request.size = MAX_FILE_SIZE
    /\ response.status = 200
    /\ Cardinality(files) = 2
    /\ \E f \in files : f.name = response.filename /\ f.size = MAX_FILE_SIZE

\* C5: an uploaded file is written once and never deleted or rewritten: the
\* set of files only grows, /analyze leaves it unchanged, and once an upload
\* has returned upload_id X no later /analyze with X answers 404.
C5_FilesOnlyGrow ==
    /\ [][ /\ files \subseteq files'
           /\ \A f \in files' : \A g \in files : g.name = f.name => g = f
           /\ request'.op = "analyze" => files' = files ]_vars
    /\ []( (request.op = "analyze" /\ request.upload_id \in returned)
              => response.status # 404 )

C5_Witness ==
    /\ request.op = "analyze"
    /\ request.upload_id \in returned
    /\ Cardinality(files) = 2
    /\ response.status = 200

----------------------------------------------------------------------------
(* Values of the recommendation engine *)

\* Optional[...] arguments
None == [none |-> TRUE]

Some(v) == [none |-> FALSE, value |-> v]

\* Python truth value of an optional list: None and [] are false
Truthy(opt) == ~opt.none /\ opt.value # <<>>

\* Python truth value of an optional string: None and "" are false
TruthyStr(opt) == ~opt.none /\ opt.value # ""

\* Python truth value of an optional dict (a set of key/value pairs here):
\* None and {} are false
TruthyDict(opt) == ~opt.none /\ opt.value # {}

Range(s) == {s[i] : i \in 1..Len(s)}

\* Python: s[:n]
Take(s, n) == SubSeq(s, 1, IF Len(s) < n THEN Len(s) ELSE n)

\* Python: [x for x in s if x in keep]
RECURSIVE SelectSeq2(_, _)
SelectSeq2(s, keep) ==
    IF s = <<>> THEN <<>>
    ELSE IF Head(s) \in keep
         THEN <<Head(s)>> \o SelectSeq2(Tail(s), keep)
         ELSE SelectSeq2(Tail(s), keep)

\* Python order of tuples: lexicographic
TupleLess(a, b) ==
    \E i \in 1..Len(a) :
        /\ a[i] < b[i]
        /\ \A j \in 1..(i - 1) : a[j] = b[j]

Bool(b) == IF b THEN 1 ELSE 0

----------------------------------------------------------------------------
(* RecommendationEngine._determine_priority_conditions *)

\* a key that leaves out whether the severity is none
PriorityKey_NoSeverity(x) ==
    <<0, x.confidence, Bool(x.severity = "severe")>>

\* key=lambda x: (severity != NONE, confidence, severity == SEVERE)
PriorityKey(x) ==
    <<Bool(x.severity # "none"), x.confidence, Bool(x.severity = "severe")>>

\* x goes in front of the elements whose key equals its own
RECURSIVE InsertByPriority_Unstable(_, _)
InsertByPriority_Unstable(s, x) ==
    IF s = <<>> THEN <<x>>
    ELSE IF ~TupleLess(PriorityKey(x), PriorityKey(Head(s)))
         THEN <<x>> \o s
         ELSE <<Head(s)>> \o InsertByPriority_Unstable(Tail(s), x)

\* sorted(..., reverse=True) is stable: x goes behind every element whose key
\* is not smaller than its own
RECURSIVE InsertByPriority(_, _)
InsertByPriority(s, x) ==
    IF s = <<>> THEN <<x>>
    ELSE IF TupleLess(PriorityKey(Head(s)), PriorityKey(x))
         THEN <<x>> \o s
         ELSE <<Head(s)>> \o InsertByPriority(Tail(s), x)

RECURSIVE SortedByPriority(_)
SortedByPriority(conditions) ==
    IF conditions = <<>> THEN <<>>
    ELSE InsertByPriority(SortedByPriority(SubSeq(conditions, 1, Len(conditions) - 1)),
                          conditions[Len(conditions)])

InFocus(c, focus_areas) == c.condition_type \in Range(focus_areas.value)

\* the two groups joined the wrong way round
FocusFirst_Swapped(priority_conditions, focus_areas) ==
    LET focused == {c \in Range(priority_conditions) : InFocus(c, focus_areas)}
        unfocused == Range(priority_conditions) \ focused
    IN  SelectSeq2(priority_conditions, unfocused) \o SelectSeq2(priority_conditions, focused)

\* focused + unfocused
FocusFirst(priority_conditions, focus_areas) ==
    LET focused == {c \in Range(priority_conditions) : InFocus(c, focus_areas)}
        unfocused == Range(priority_conditions) \ focused
    IN  SelectSeq2(priority_conditions, focused) \o SelectSeq2(priority_conditions, unfocused)

\* a result that is not cut
TopConditions_All(priority_conditions) == priority_conditions

\* the first two conditions only
TopConditions_FirstTwo(priority_conditions) == Take(priority_conditions, 2)

\* priority_conditions[:3]
TopConditions(priority_conditions) == Take(priority_conditions, 3)

determine_priority_conditions(conditions, focus_areas) ==
    LET priority_conditions == SortedByPriority(conditions) IN
    TopConditions(IF Truthy(focus_areas)
                  THEN FocusFirst(priority_conditions, focus_areas)
                  ELSE priority_conditions)

----------------------------------------------------------------------------
(* RecommendationEngine._calculate_recommendation_confidence *)

RECURSIVE SumConfidence(_)
SumConfidence(conditions) ==
    IF conditions = <<>> THEN 0
    ELSE Head(conditions).confidence + SumConfidence(Tail(conditions))

\* Scores are fractions num / den.  Confidences are hundredths, so with n
\* conditions the average is sum / (100 * n) and every term of the score is
\* a whole number of units 1 / (1000 * n).
ScoreDen(conditions) ==
    1000 * (IF conditions = <<>> THEN 1 ELSE Len(conditions))

\* complexity_modifier.get(complexity, 0), in thousandths
ComplexityModifier(complexity) ==
    CASE complexity = "beginner" -> 50
      [] complexity = "intermediate" -> 0
      [] complexity = "advanced" -> -50
      [] OTHER -> 0

\* a result that is not clamped
Clamp01_None(num, den) == num

\* min(1.0, max(0.0, base_confidence))
Clamp01(num, den) ==
    LET floored == IF num < 0 THEN 0 ELSE num
    IN  IF floored > den THEN den ELSE floored

calculate_recommendation_confidence(conditions, has_user_profile, complexity) ==
    LET n == IF conditions = <<>> THEN 1 ELSE Len(conditions)
        den == ScoreDen(conditions)
        \* base_confidence = 0.8
        base == 800 * n
        \* (avg_condition_confidence - 0.7) * 0.2
        byConditions == IF conditions # <<>>
                        THEN 2 * SumConfidence(conditions) - 140 * n
                        ELSE 0
        byProfile == IF has_user_profile THEN 100 * n ELSE 0
        byComplexity == ComplexityModifier(complexity) * n
    IN  [num |-> Clamp01(base + byConditions + byProfile + byComplexity, den),
         den |-> den]

----------------------------------------------------------------------------
(* Product selection: RecommendationEngine._recommend_products *)

\* a fallback to the largest template
get_routine_template_Advanced(complexity) ==
    IF complexity \in DOMAIN engine.routine_templates
    THEN engine.routine_templates[complexity]
    ELSE engine.routine_templates["advanced"]

\* self.routine_templates.get(complexity, self.routine_templates["beginner"])
get_routine_template(complexity) ==
    IF complexity \in DOMAIN engine.routine_templates
    THEN engine.routine_templates[complexity]
    ELSE engine.routine_templates["beginner"]

\* self.product_database.get(category.value, [])
ProductsOf(category) ==
    IF category \in DOMAIN engine.product_database
    THEN engine.product_database[category]
    ELSE <<>>

ConditionTypes(conditions) == {conditions[i].condition_type : i \in 1..Len(conditions)}

\* without the fallback to the whole category
get_products_for_category_RelevantOnly(category, conditions) ==
    SelectSeq(ProductsOf(category),
              LAMBDA product :
                  \E target \in Range(product.target_conditions) :
                      target \in ConditionTypes(conditions))

get_products_for_category(category, conditions) ==
    LET products == ProductsOf(category)
        relevant_products ==
            SelectSeq(products,
                      LAMBDA product :
                          \E target \in Range(product.target_conditions) :
                              target \in ConditionTypes(conditions))
    IN  IF relevant_products # <<>> THEN relevant_products ELSE products

get_targeted_treatments(condition) ==
    LET all_treatments == ProductsOf("treatment") \o ProductsOf("serum")
    IN  SelectSeq(all_treatments,
                  LAMBDA product :
                      condition.condition_type \in Range(product.target_conditions))

\* for "low", the price is not asked for its "$"
calculate_budget_score_AnyCurrency(product, budget_preference) ==
    LET price_range == IF product.price_range # <<>> THEN product.price_range
                       ELSE <<"$", "0", "-", "5", "0">>
    IN  IF budget_preference = "low"
        THEN IF ~Contains(<<"3", "0">>, price_range) THEN 100 ELSE 50
        ELSE IF budget_preference = "high"
        THEN IF Contains(<<"3", "0">>, price_range) \/ Contains(<<"4", "0">>, price_range)
             THEN 100 ELSE 80
        ELSE 90

\* _calculate_budget_score, in hundredths; "$0-50" stands in for no price
calculate_budget_score(product, budget_preference) ==
    LET price_range == IF product.price_range # <<>> THEN product.price_range
                       ELSE <<"$", "0", "-", "5", "0">>
    IN  IF budget_preference = "low"
        THEN IF Contains(<<"$">>, price_range) /\ ~Contains(<<"3", "0">>, price_range)
             THEN 100 ELSE 50
        ELSE IF budget_preference = "high"
        THEN IF Contains(<<"3", "0">>, price_range) \/ Contains(<<"4", "0">>, price_range)
             THEN 100 ELSE 80
        ELSE 90

\* the score of _select_best_product, in thousandths
ProductScore(product, user_profile, budget_preference) ==
    10 * product.recommendation_confidence
    + (IF TruthyDict(user_profile) THEN 2 * product.personalization_score ELSE 0)
    + (IF TruthyStr(budget_preference)
       THEN calculate_budget_score(product, budget_preference.value)
       ELSE 0)

\* max(scored_products, key=...): the first product of the highest score;
\* None for an empty list
select_best_product(products, user_profile, budget_preference) ==
    IF products = <<>> THEN None
    ELSE LET score(i) == ProductScore(products[i], user_profile, budget_preference)
             best == CHOOSE i \in 1..Len(products) :
                        /\ \A j \in 1..Len(products) : score(j) <= score(i)
                        /\ \A j \in 1..(i - 1) : score(j) < score(i)
         IN  Some(products[best])

\* for category in template["required_categories"]: ...
RECURSIVE AddRequired(_, _, _, _, _)
AddRequired(categories, recommended_products, priority_conditions, user_profile, budget_preference) ==
    IF categories = <<>> THEN recommended_products
    ELSE LET products == get_products_for_category(Head(categories), priority_conditions)
             best_product == select_best_product(products, user_profile, budget_preference)
         IN  AddRequired(Tail(categories),
                         IF products # <<>> /\ ~best_product.none
                         THEN Append(recommended_products, best_product.value)
                         ELSE recommended_products,
                         priority_conditions, user_profile, budget_preference)

\* actives_added counts every condition that has a best treatment, also one
\* whose best treatment is already chosen
RECURSIVE AddTargeted_CountsRepeats(_, _, _, _, _, _)
AddTargeted_CountsRepeats(conditions, recommended_products, actives_added, max_actives, user_profile, budget_preference) ==
    IF conditions = <<>> \/ actives_added >= max_actives THEN recommended_products
    ELSE LET treatment_products == get_targeted_treatments(Head(conditions))
             best_treatment ==
                 select_best_product(treatment_products, user_profile, budget_preference)
             found == treatment_products # <<>> /\ ~best_treatment.none
             added == found /\ best_treatment.value \notin Range(recommended_products)
         IN  AddTargeted_CountsRepeats(
                 Tail(conditions),
                 IF added THEN Append(recommended_products, best_treatment.value)
                 ELSE recommended_products,
                 IF found THEN actives_added + 1 ELSE actives_added,
                 max_actives, user_profile, budget_preference)

\* the best treatment is appended without looking whether it is chosen already
RECURSIVE AddTargeted_AddsRepeats(_, _, _, _, _, _)
AddTargeted_AddsRepeats(conditions, recommended_products, actives_added, max_actives, user_profile, budget_preference) ==
    IF conditions = <<>> \/ actives_added >= max_actives THEN recommended_products
    ELSE LET treatment_products == get_targeted_treatments(Head(conditions))
             best_treatment ==
                 select_best_product(treatment_products, user_profile, budget_preference)
             added == treatment_products # <<>> /\ ~best_treatment.none
         IN  AddTargeted_AddsRepeats(
                 Tail(conditions),
                 IF added THEN Append(recommended_products, best_treatment.value)
                 ELSE recommended_products,
                 IF added THEN actives_added + 1 ELSE actives_added,
                 max_actives, user_profile, budget_preference)

\* for condition in priority_conditions: ... (with actives_added)
RECURSIVE AddTargeted(_, _, _, _, _, _)
AddTargeted(conditions, recommended_products, actives_added, max_actives, user_profile, budget_preference) ==
    IF conditions = <<>> \/ actives_added >= max_actives THEN recommended_products
    ELSE LET treatment_products == get_targeted_treatments(Head(conditions))
             best_treatment ==
                 select_best_product(treatment_products, user_profile, budget_preference)
             added == /\ treatment_products # <<>>
                      /\ ~best_treatment.none
                      /\ best_treatment.value \notin Range(recommended_products)
         IN  AddTargeted(Tail(conditions),
                         IF added THEN Append(recommended_products, best_treatment.value)
                         ELSE recommended_products,
                         IF added THEN actives_added + 1 ELSE actives_added,
                         max_actives, user_profile, budget_preference)

\* the list cut at max_actives, not at max_products
recommend_products_CutAtMaxActives(priority_conditions, user_profile, budget_preference, routine_complexity) ==
    LET template == get_routine_template(routine_complexity)
        required == AddRequired(template.required_categories, <<>>,
                                priority_conditions, user_profile, budget_preference)
        recommended_products ==
            AddTargeted(priority_conditions, required, 0, template.max_actives,
                        user_profile, budget_preference)
    IN  Take(recommended_products, template.max_actives)

recommend_products(priority_conditions, user_profile, budget_preference, routine_complexity) ==
    LET template == get_routine_template(routine_complexity)
        required == AddRequired(template.required_categories, <<>>,
                                priority_conditions, user_profile, budget_preference)
        recommended_products ==
            AddTargeted(priority_conditions, required, 0, template.max_actives,
                        user_profile, budget_preference)
    IN  Take(recommended_products, template.max_products)

----------------------------------------------------------------------------
(* The prioritizer on bounded inputs *)

\* longest list of conditions handed to the prioritizer
MaxConditions == 4

PrioTypes == {"acne", "dryness"}

PrioSeverities == {"none", "mild", "severe"}

PrioConfidences == {78, 85}

PrioConditions ==
    [condition_type : PrioTypes, severity : PrioSeverities, confidence : PrioConfidences]

PrioFocusAreas == {None, Some(<<>>), Some(<<"acne">>), Some(<<"dryness", "acne">>)}

InitPrio ==
    /\ dirExists = TRUE
    /\ files = {}
    /\ returned = {}
    /\ request = NoRequest
    /\ response = NoResponse
    /\ engine = EngineInit
    /\ pending = {}
    /\ alone = <<>>
    /\ engineIn \in [fn : {"prioritize"},
                      conditions : SeqsUpTo(PrioConditions, MaxConditions),
                      focus_areas : PrioFocusAreas]
    /\ engineOut = NoResult

Prioritize ==
    /\ engineIn.fn = "prioritize"
    /\ engineOut = NoResult
    /\ engineOut' = [fn |-> "prioritize",
                     priority_conditions |->
                        determine_priority_conditions(engineIn.conditions,
                                                      engineIn.focus_areas)]
    /\ UNCHANGED <<httpVars, engineState, engineIn>>

NextPrio == Prioritize

SpecPrio == InitPrio /\ [][NextPrio]_vars

----------------------------------------------------------------------------
(* Properties of the prioritizer *)

Prioritized == engineOut.fn = "prioritize"

\* number of positions of s that hold x
Count(s, x) == Cardinality({i \in 1..Len(s) : s[i] = x})

\* positions i < j of the output with a none-severity condition at i and a
\* non-none-severity condition at j
NoneBeforeSome(out) ==
    {p \in (1..Len(out)) \X (1..Len(out)) :
        /\ p[1] < p[2]
        /\ out[p[1]].severity = "none"
        /\ out[p[2]].severity # "none"}

\* C6 (as claimed): with at least one condition of non-none severity and any
\* focus_areas, absent, empty or non-empty, the output never has a
\* none-severity condition at an earlier position than a non-none one.
C6_NoneNeverFirst ==
    (Prioritized /\ \E c \in Range(engineIn.conditions) : c.severity # "none")
        => NoneBeforeSome(engineOut.priority_conditions) = {}

\* C6 (amended): with at least one condition of non-none severity, the
\* output has a none-severity condition at an earlier position than a
\* non-none one only when the none-severity condition's type is in
\* focus_areas and the other one's is not; never when focus_areas is absent
\* or empty.
C6_NoneFirstOnlyByFocus ==
    (Prioritized /\ \E c \in Range(engineIn.conditions) : c.severity # "none")
        => LET out == engineOut.priority_conditions
               areas == IF engineIn.focus_areas.none THEN {}
                        ELSE Range(engineIn.focus_areas.value)
           IN  \A p \in NoneBeforeSome(out) :
                  /\ out[p[1]].condition_type \in areas
                  /\ out[p[2]].condition_type \notin areas

\* a none-severity condition of higher confidence first in the input, a
\* non-none one behind it, both in focus: the output has them the other way
C6_Witness ==
    /\ Prioritized
    /\ engineIn.focus_areas = Some(<<"acne">>)
    /\ Len(engineIn.conditions) = 3
    /\ engineIn.conditions[1] =
          [condition_type |-> "acne", severity |-> "none", confidence |-> 85]
    /\ engineIn.conditions[2] =
          [condition_type |-> "acne", severity |-> "mild", confidence |-> 78]
    /\ engineIn.conditions[3].condition_type = "dryness"
    /\ engineOut.priority_conditions[1] = engineIn.conditions[2]
    /\ engineOut.priority_conditions[2] = engineIn.conditions[1]

\* C7: for any input list (empty, longer than 3, with repeated types) and
\* any focus_areas the output has min(3, input length) entries, at most 3,
\* each of them an element of the input, none more often than in the input.
C7_AtMostThreeOfInput ==
    Prioritized
        => LET out == engineOut.priority_conditions
               inp == engineIn.conditions
           IN  /\ Len(out) <= 3
               /\ Len(out) = (IF Len(inp) < 3 THEN Len(inp) ELSE 3)
               /\ \A i \in 1..Len(out) :
                     /\ out[i] \in Range(inp)
                     /\ Count(out, out[i]) <= Count(inp, out[i])

C7_Witness ==
    /\ Prioritized
    /\ Len(engineIn.conditions) = 4
    /\ \A i \in 1..4 : engineIn.conditions[i].condition_type = "acne"
    /\ Truthy(engineIn.focus_areas)
    /\ Len(engineOut.priority_conditions) = 3

\* C8: when focus_areas is non-empty and some condition's type is in it,
\* every output condition whose type is in focus_areas is before every output
\* condition whose type is not, and inside either group the order is that of
\* the severity/confidence sort: keys do not increase, and conditions of
\* equal key are in input order.
C8_FocusFirst ==
    (/\ Prioritized
     /\ ~engineIn.focus_areas.none
     /\ engineIn.focus_areas.value # <<>>
     /\ \E c \in Range(engineIn.conditions) :
            c.condition_type \in Range(engineIn.focus_areas.value))
        => LET out == engineOut.priority_conditions
               inp == engineIn.conditions
               areas == Range(engineIn.focus_areas.value)
               key(c) == <<Bool(c.severity # "none"), c.confidence,
                           Bool(c.severity = "severe")>>
           IN  \A i, j \in 1..Len(out) :
                 i < j =>
                   /\ ~(out[i].condition_type \notin areas
                          /\ out[j].condition_type \in areas)
                   /\ ((out[i].condition_type \in areas)
                          = (out[j].condition_type \in areas))
                        => /\ ~TupleLess(key(out[i]), key(out[j]))
                           /\ key(out[i]) = key(out[j])
                                => \E a, b \in 1..Len(inp) :
                                      a < b /\ inp[a] = out[i] /\ inp[b] = out[j]

\* an unfocused severe condition of high confidence first in the input, two
\* focused ones behind it: the focused ones come out first
C8_Witness ==
    /\ Prioritized
    /\ engineIn.focus_areas = Some(<<"acne">>)
    /\ Len(engineIn.conditions) = 4
    /\ engineIn.conditions[1] =
          [condition_type |-> "dryness", severity |-> "severe", confidence |-> 85]
    /\ engineIn.conditions[2].condition_type = "acne"
    /\ engineIn.conditions[3].condition_type = "acne"
    /\ engineIn.conditions[4].condition_type = "dryness"
    /\ engineOut.priority_conditions[1].condition_type = "acne"
    /\ engineOut.priority_conditions[2].condition_type = "acne"
    /\ engineOut.priority_conditions[3] = engineIn.conditions[1]

----------------------------------------------------------------------------
(* The confidence scorer on bounded inputs *)

ScoreConfidences == {0, 70, 85, 100}

ScoreConditions ==
    [condition_type : {"acne"}, severity : {"moderate"}, confidence : ScoreConfidences]

Complexities == {"beginner", "intermediate", "advanced", "expert"}

InitScore ==
    /\ dirExists = TRUE
    /\ files = {}
    /\ returned = {}
    /\ request = NoRequest
    /\ response = NoResponse
    /\ engine = EngineInit
    /\ pending = {}
    /\ alone = <<>>
    /\ engineIn \in [fn : {"score"},
                      conditions : SeqsUpTo(ScoreConditions, MaxConditions),
                      has_user_profile : BOOLEAN,
                      complexity : Complexities]
    /\ engineOut = NoResult

Score ==
    /\ engineIn.fn = "score"
    /\ engineOut = NoResult
    /\ engineOut' = [fn |-> "score",
                     confidence_score |->
                        calculate_recommendation_confidence(engineIn.conditions,
                                                            engineIn.has_user_profile,
                                                            engineIn.complexity)]
    /\ UNCHANGED <<httpVars, engineState, engineIn>>

NextScore == Score

SpecScore == InitScore /\ [][NextScore]_vars

\* C10: the confidence score is in [0, 1] for every condition list, the
\* empty one included, every has_user_profile flag and every complexity
\* label: not negative for average confidence 0, "advanced" and no profile,
\* not above 1 for average confidence 1, a profile and "beginner".
C10_ScoreInUnitInterval ==
    engineOut.fn = "score"
        => /\ engineOut.confidence_score.den > 0
           /\ 0 <= engineOut.confidence_score.num
           /\ engineOut.confidence_score.num <= engineOut.confidence_score.den

\* average confidence 1 with a profile and "beginner": 0.8 + 0.06 + 0.1 + 0.05
\* is above 1 and the result is 1
C10_Witness ==
    /\ engineOut.fn = "score"
    /\ Len(engineIn.conditions) = 2
    /\ \A i \in 1..2 : engineIn.conditions[i].confidence = 100
    /\ engineIn.has_user_profile
    /\ engineIn.complexity = "beginner"
    /\ engineOut.confidence_score.num = engineOut.confidence_score.den

----------------------------------------------------------------------------
(* The product selector on bounded inputs *)

\* _determine_priority_conditions returns at most 3 conditions
MaxPriority == 3

\* only the type of a prioritized condition is read by the selector
SelectorConditions ==
    [condition_type : SkinConditionTypes, severity : {"moderate"}, confidence : {85}]

UserProfiles == {None, Some({}), Some({<<"skin_type", "oily">>})}

BudgetPreferences == {None, Some(""), Some("low"), Some("medium"), Some("high")}

InitSelect ==
    /\ dirExists = TRUE
    /\ files = {}
    /\ returned = {}
    /\ request = NoRequest
    /\ response = NoResponse
    /\ engine = EngineInit
    /\ pending = {}
    /\ alone = <<>>
    /\ engineIn \in [fn : {"select"},
                      priority_conditions : SeqsUpTo(SelectorConditions, MaxPriority),
                      user_profile : UserProfiles,
                      budget_preference : BudgetPreferences,
                      routine_complexity : Complexities]
    /\ engineOut = NoResult

Select ==
    /\ engineIn.fn = "select"
    /\ engineOut = NoResult
    /\ engineOut' = [fn |-> "select",
                     products |-> recommend_products(engineIn.priority_conditions,
                                                     engineIn.user_profile,
                                                     engineIn.budget_preference,
                                                     engineIn.routine_complexity)]
    /\ UNCHANGED <<httpVars, engineState, engineIn>>

NextSelect == Select

SpecSelect == InitSelect /\ [][NextSelect]_vars

\* C9: for every routine_complexity (beginner, intermediate, advanced or an
\* unrecognised label, which uses the beginner template), every list of
\* priority conditions, user profile and budget preference, the selector
\* returns at most max_products entries of the template used: 4, 6, 8.
C9_AtMostMaxProducts ==
    engineOut.fn = "select"
        => Len(engineOut.products) <=
              (CASE engineIn.routine_complexity = "intermediate" -> 6
                 [] engineIn.routine_complexity = "advanced" -> 8
                 [] OTHER -> 4)

\* a beginner routine filled to its 4 products: three required ones and one
\* targeted treatment
C9_Witness ==
    /\ engineOut.fn = "select"
    /\ engineIn.routine_complexity = "expert"
    /\ Len(engineIn.priority_conditions) = 3
    /\ Len(engineOut.products) = 4

----------------------------------------------------------------------------
(* RecommendationEngine._create_skincare_routine *)

MaxRoutineProducts == 3

CatalogProducts == UNION {Range(product_database[c]) : c \in DOMAIN product_database}

\* p goes in front of the products whose application_order equals its own
RECURSIVE InsertByOrder_Unstable(_, _)
InsertByOrder_Unstable(s, p) ==
    IF s = <<>> THEN <<p>>
    ELSE IF p.application_order <= Head(s).application_order
         THEN <<p>> \o s
         ELSE <<Head(s)>> \o InsertByOrder_Unstable(Tail(s), p)

\* sorted(products, key=lambda x: x.application_order) is stable: p goes
\* behind every product whose application_order is not larger than its own
RECURSIVE InsertByOrder(_, _)
InsertByOrder(s, p) ==
    IF s = <<>> THEN <<p>>
    ELSE IF p.application_order < Head(s).application_order
         THEN <<p>> \o s
         ELSE <<Head(s)>> \o InsertByOrder(Tail(s), p)

RECURSIVE SortedByOrder(_)
SortedByOrder(products) ==
    IF products = <<>> THEN <<>>
    ELSE InsertByOrder(SortedByOrder(SubSeq(products, 1, Len(products) - 1)),
                       products[Len(products)])

\* a product for both times of day reaches the morning list only
AppendedTo_BothIsMorning(product) ==
    IF product.time_of_day = "morning" THEN {"morning"}
    ELSE IF product.time_of_day = "evening" THEN {"evening"}
    ELSE IF product.time_of_day = "both" THEN {"morning"}
    ELSE {}

\* the if / elif / elif chain on product.time_of_day: the daily lists the
\* product is appended to
AppendedTo(product) ==
    IF product.time_of_day = "morning" THEN {"morning"}
    ELSE IF product.time_of_day = "evening" THEN {"evening"}
    ELSE IF product.time_of_day = "both" THEN {"morning", "evening"}
    ELSE {}

\* "week" in product.usage_frequency or "times per week" in product.usage_frequency
IsWeekly(product) ==
    \/ Contains(<<"w", "e", "e", "k">>, product.usage_frequency)
    \/ Contains(<<"t", "i", "m", "e", "s", " ", "p", "e", "r", " ", "w", "e", "e", "k">>,
                product.usage_frequency)

\* the weekly test is one more elif of the chain: a weekly product reaches
\* no daily list
RECURSIVE DailyList_WeeklyElsewhere(_, _)
DailyList_WeeklyElsewhere(sorted_products, time) ==
    IF sorted_products = <<>> THEN <<>>
    ELSE IF time \in AppendedTo(Head(sorted_products)) /\ ~IsWeekly(Head(sorted_products))
         THEN <<Head(sorted_products)>> \o DailyList_WeeklyElsewhere(Tail(sorted_products), time)
         ELSE DailyList_WeeklyElsewhere(Tail(sorted_products), time)

\* the for loop over sorted_products, one list at a time
RECURSIVE DailyList(_, _)
DailyList(sorted_products, time) ==
    IF sorted_products = <<>> THEN <<>>
    ELSE IF time \in AppendedTo(Head(sorted_products))
         THEN <<Head(sorted_products)>> \o DailyList(Tail(sorted_products), time)
         ELSE DailyList(Tail(sorted_products), time)

RECURSIVE WeeklyList(_)
WeeklyList(sorted_products) ==
    IF sorted_products = <<>> THEN <<>>
    ELSE IF IsWeekly(Head(sorted_products))
         THEN <<Head(sorted_products)>> \o WeeklyList(Tail(sorted_products))
         ELSE WeeklyList(Tail(sorted_products))

estimate_routine_cost(products) ==
    IF Len(products) <= 3 THEN "$30-60/month"
    ELSE IF Len(products) <= 5 THEN "$50-100/month"
    ELSE "$80-150/month"

estimate_time_commitment(products, complexity) ==
    IF complexity = "beginner" THEN "3-5 minutes"
    ELSE IF complexity = "intermediate" THEN "5-8 minutes"
    ELSE "8-12 minutes"

\* the SkincareRoutine, without its random routine_id
create_skincare_routine(products, complexity) ==
    LET sorted_products == SortedByOrder(products) IN
    [morning_routine |-> DailyList(sorted_products, "morning"),
     evening_routine |-> DailyList(sorted_products, "evening"),
     weekly_treatments |-> WeeklyList(sorted_products),
     difficulty_level |-> complexity,
     estimated_cost |-> estimate_routine_cost(products),
     time_commitment |-> estimate_time_commitment(products, complexity)]

----------------------------------------------------------------------------
(* The routine assembler on bounded inputs *)

InitRoutine ==
    /\ dirExists = TRUE
    /\ files = {}
    /\ returned = {}
    /\ request = NoRequest
    /\ response = NoResponse
    /\ engine = EngineInit
    /\ pending = {}
    /\ alone = <<>>
    /\ engineIn \in [fn : {"routine"},
                      products : SeqsUpTo(CatalogProducts, MaxRoutineProducts),
                      complexity : Complexities]
    /\ engineOut = NoResult

Assemble ==
    /\ engineIn.fn = "routine"
    /\ engineOut = NoResult
    /\ engineOut' = [fn |-> "routine",
                     routine |-> create_skincare_routine(engineIn.products,
                                                         engineIn.complexity)]
    /\ UNCHANGED <<httpVars, engineState, engineIn>>

NextRoutine == Assemble

SpecRoutine == InitRoutine /\ [][NextRoutine]_vars

\* C12: a product for both times of day is in the morning list and in the
\* evening list, a morning product is in the morning list only, an evening
\* product is in the evening list only, and every input product is in at
\* least one of the two daily lists
C12_DailyListsByTimeOfDay ==
    engineOut.fn = "routine" =>
        LET morning == Range(engineOut.routine.morning_routine)
            evening == Range(engineOut.routine.evening_routine)
        IN  \A i \in 1..Len(engineIn.products) :
                LET p == engineIn.products[i] IN
                /\ p.time_of_day = "both" => p \in morning /\ p \in evening
                /\ p.time_of_day = "morning" => p \in morning /\ p \notin evening
                /\ p.time_of_day = "evening" => p \in evening /\ p \notin morning
                /\ p \in morning \cup evening

\* a routine was assembled from a morning product, an evening product and a
\* product for both times of day
C12_Witness ==
    /\ engineOut.fn = "routine"
    /\ {engineIn.products[i].time_of_day : i \in 1..Len(engineIn.products)}
          = {"morning", "evening", "both"}

----------------------------------------------------------------------------
(* RecommendationEngine.generate_recommendations *)

get_mock_analysis_conditions ==
    <<[condition_type |-> "acne", severity |-> "moderate", confidence |-> 85],
      [condition_type |-> "oiliness", severity |-> "mild", confidence |-> 78],
      [condition_type |-> "pores", severity |-> "moderate", confidence |-> 82]>>

generate_general_advice(priority_conditions, user_profile) ==
    LET condition_types == ConditionTypes(priority_conditions)
        When(kind, tips) == IF kind \in condition_types THEN tips ELSE <<>>
    IN  [lifestyle_tips |->
            <<"Stay hydrated by drinking plenty of water",
              "Get adequate sleep for skin repair and renewal",
              "Manage stress through relaxation techniques",
              "Avoid touching your face frequently">>
            \o When("wrinkles", <<"Use a silk pillowcase to reduce friction">>)
            \o When("dryness", <<"Use a humidifier in dry environments">>),
         dietary_suggestions |->
            <<"Include antioxidant-rich foods in your diet",
              "Consider reducing dairy if you have acne-prone skin",
              "Limit high-glycemic foods that may trigger breakouts">>
            \o When("acne", <<"Consider probiotics for gut health">>),
         habits_to_avoid |->
            <<"Don't over-wash your face",
              "Avoid picking at blemishes",
              "Don't skip sunscreen, even on cloudy days">>
            \o When("acne", <<"Avoid heavy, pore-clogging products">>)
            \o When("wrinkles", <<"Don't sleep on your stomach">>)
            \o When("dryness", <<"Avoid hot showers that strip natural oils">>),
         when_to_see_dermatologist |->
            "If conditions worsen or don't improve after 8-12 weeks"]

format_priority_conditions(conditions) ==
    [i \in 1..Len(conditions) |->
        [condition |-> conditions[i].condition_type,
         severity |-> conditions[i].severity,
         confidence |-> conditions[i].confidence,
         treatment_priority |->
            IF conditions[i].severity = "severe" THEN "high" ELSE "medium"]]

\* the timelines list of _estimate_improvement_timeline
RECURSIVE Timelines(_)
Timelines(conditions) ==
    IF conditions = <<>> THEN <<>>
    ELSE LET kind == Head(conditions).condition_type
             line == IF kind = "acne" THEN <<"6-8 weeks for acne improvement">>
                     ELSE IF kind = "dark_spots" THEN <<"8-12 weeks for dark spot fading">>
                     ELSE IF kind = "wrinkles" THEN <<"12-16 weeks for anti-aging results">>
                     ELSE IF kind = "oiliness" THEN <<"2-4 weeks for oil control">>
                     ELSE IF kind = "dryness"
                          THEN <<"1-2 weeks for hydration improvement">>
                     ELSE <<>>
         IN  line \o Timelines(Tail(conditions))

\* "; ".join(timelines) is kept as the sequence of the joined parts
estimate_improvement_timeline(conditions) ==
    IF Truthy(Some(Timelines(conditions)))
    THEN Timelines(conditions)
    ELSE <<"4-8 weeks for general skin improvement">>

\* the RecommendationResponse, without the random recommendation_id, the
\* echoed analysis_id and the creation time
generate_recommendations(user_profile, budget_preference, routine_complexity, focus_areas) ==
    LET mock_conditions == get_mock_analysis_conditions
        priority_conditions == determine_priority_conditions(mock_conditions, focus_areas)
        recommended_products ==
            recommend_products(priority_conditions, user_profile, budget_preference,
                               routine_complexity)
    IN  [skincare_routine |-> create_skincare_routine(recommended_products,
                                                      routine_complexity),
         general_advice |-> generate_general_advice(priority_conditions, user_profile),
         priority_conditions |-> format_priority_conditions(priority_conditions),
         expected_improvement_timeline |->
            estimate_improvement_timeline(priority_conditions),
         follow_up_recommended |-> "4-6 weeks",
         personalized |-> ~user_profile.none,
         confidence_score |->
            calculate_recommendation_confidence(priority_conditions, ~user_profile.none,
                                                routine_complexity)]

----------------------------------------------------------------------------
(* POST /recommend on the shared engine, one request after the other *)

\* focus_areas: absent, empty, one mock condition, a condition that the mock
\* analysis does not report, two conditions
FocusAreas ==
    {None, Some(<<>>), Some(<<"oiliness">>), Some(<<"pores">>), Some(<<"dryness">>),
     Some(<<"oiliness", "pores">>), Some(<<"pores", "acne">>),
     Some(<<"acne", "oiliness">>)}

\* the RecommendationRequest bodies, without analysis_id
RecommendationRequests ==
    [user_profile : UserProfiles,
     budget_preference : BudgetPreferences,
     routine_complexity : Complexities,
     focus_areas : FocusAreas]

Recommendations(r) ==
    generate_recommendations(r.user_profile, r.budget_preference,
                             r.routine_complexity, r.focus_areas)

\* the chosen products are taken out of the catalog
CatalogsAfter_RemoveChosen(r) ==
    LET routine == Recommendations(r).skincare_routine
        chosen == Range(routine.morning_routine) \cup Range(routine.evening_routine)
    IN  [engine EXCEPT !.product_database =
            [c \in DOMAIN engine.product_database |->
                SelectSeq2(engine.product_database[c],
                           Range(engine.product_database[c]) \ chosen)]]

\* the catalogs after a call of generate_recommendations: the method assigns
\* no attribute of self, and the lists and products it takes out of the
\* catalogs are read, concatenated, sliced and sorted into new lists
CatalogsAfter(r) == engine

InitGenerate ==
    /\ dirExists = TRUE
    /\ files = {}
    /\ returned = {}
    /\ request = NoRequest
    /\ response = NoResponse
    /\ engine = EngineInit
    /\ pending = {}
    /\ alone = <<>>
    /\ engineIn = NoCall
    /\ engineOut = NoResult

get_skincare_recommendations(r) ==
    /\ engineIn' = [fn |-> "recommend", request |-> r]
    /\ engineOut' = [fn |-> "recommend", status |-> 200,
                     recommendations |-> Recommendations(r)]
    /\ engine' = CatalogsAfter(r)
    /\ UNCHANGED <<httpVars, alone>>

Recommend ==
    \E r \in RecommendationRequests :
        /\ get_skincare_recommendations(r)
        /\ UNCHANGED pending

NextGenerate == Recommend

SpecGenerate == InitGenerate /\ [][NextGenerate]_vars

\* the products of a routine
RoutineProducts(routine) ==
    Range(routine.morning_routine) \cup Range(routine.evening_routine)

\* C11: for the mock conditions and routine_complexity "beginner", whatever
\* the user profile, the budget preference and the focus areas, the routine
\* has exactly one cleanser, one moisturizer and one sunscreen among at most
\* 4 distinct products
C11_BeginnerRoutine ==
    (engineOut.fn = "recommend" /\ engineIn.request.routine_complexity = "beginner") =>
        LET products == RoutineProducts(engineOut.recommendations.skincare_routine)
            Of(category) == {p \in products : p.category = category}
        IN  /\ Cardinality(Of("cleanser")) = 1
            /\ Cardinality(Of("moisturizer")) = 1
            /\ Cardinality(Of("sunscreen")) = 1
            /\ Cardinality(products) <= 4

\* a beginner request with a profile, a budget and focus areas was answered
\* with a routine of 4 products
C11_Witness ==
    /\ engineOut.fn = "recommend"
    /\ engineIn.request.routine_complexity = "beginner"
    /\ TruthyDict(engineIn.request.user_profile)
    /\ engineIn.request.budget_preference = Some("low")
    /\ Truthy(engineIn.request.focus_areas)
    /\ Cardinality(RoutineProducts(engineOut.recommendations.skincare_routine)) = 4

\* C13: after any sequence of generate_recommendations calls the product
\* database, the recommendation rules and the routine templates of the
\* engine have the values that the constructor gave them
C13_CatalogsUnchanged ==
    /\ engine.product_database = product_database
    /\ engine.recommendation_rules = recommendation_rules
    /\ engine.routine_templates = routine_templates

\* a request was answered with a routine made of catalog products
C13_Witness ==
    /\ engineOut.fn = "recommend"
    /\ RoutineProducts(engineOut.recommendations.skincare_routine) # {}
    /\ RoutineProducts(engineOut.recommendations.skincare_routine) \subseteq CatalogProducts

----------------------------------------------------------------------------
(* POST /recommend on the shared engine, several requests in flight *)

MaxInFlight == 2

ConcurrentRequests ==
    [user_profile : {None, Some({<<"skin_type", "oily">>})},
     budget_preference : {None, Some("low")},
     routine_complexity : {"beginner", "advanced"},
     focus_areas : {None, Some(<<"oiliness">>)}]

\* alone is what an engine that has answered nothing answers to each request
InitConcurrent ==
    /\ dirExists = TRUE
    /\ files = {}
    /\ returned = {}
    /\ request = NoRequest
    /\ response = NoResponse
    /\ engine = EngineInit
    /\ pending = {}
    /\ alone = [r \in ConcurrentRequests |-> Recommendations(r)]
    /\ engineIn = NoCall
    /\ engineOut = NoResult

\* a request arrives while others are in flight
Receive ==
    \E r \in ConcurrentRequests \ pending :
        /\ Cardinality(pending) < MaxInFlight
        /\ pending' = pending \cup {r}
        /\ UNCHANGED <<httpVars, engine, alone, engineIn, engineOut>>

\* the event loop runs the handler of one of the requests in flight:
\* generate_recommendations has no await, so the call runs to its end before
\* another handler starts, in whatever order the loop picks the requests
Answer ==
    \E r \in pending :
        /\ get_skincare_recommendations(r)
        /\ pending' = pending \ {r}

NextConcurrent == Receive \/ Answer

SpecConcurrent == InitConcurrent /\ [][NextConcurrent]_vars

\* C15: whatever requests are in flight and in whatever order they are
\* served, the routine, the advice, the priority conditions and the
\* confidence score of an answer are those that the request gets from an
\* engine that serves nothing else
C15_AnswerAsAlone ==
    engineOut.fn = "recommend" =>
        LET got == engineOut.recommendations
            single == alone[engineIn.request]
        IN  /\ got.skincare_routine = single.skincare_routine
            /\ got.general_advice = single.general_advice
            /\ got.priority_conditions = single.priority_conditions
            /\ got.confidence_score = single.confidence_score

\* a request was answered while another one was still in flight
C15_Witness ==
    /\ engineOut.fn = "recommend"
    /\ pending # {}
    /\ engineIn.request \notin pending

----------------------------------------------------------------------------
(* SkinAnalyzer._calculate_health_score *)

\* Scores and deductions are thousandths of a point: a severity weight
\* (integer) times a condition weight (tenths) times a confidence (hundredths).

MaxDetected == 6

severity_weights == [none |-> 0, mild |-> 3, moderate |-> 8, severe |-> 15]

condition_weights ==
    [acne |-> 12, wrinkles |-> 10, dark_spots |-> 11, oiliness |-> 8,
     dryness |-> 9, pores |-> 7, pigmentation |-> 11]

\* severity_impact * condition_weight * confidence_factor
Deduction(condition) ==
    LET severity_impact == IF condition.severity \in DOMAIN severity_weights
                           THEN severity_weights[condition.severity]
                           ELSE 0
        condition_weight == IF condition.condition_type \in DOMAIN condition_weights
                            THEN condition_weights[condition.condition_type]
                            ELSE 10
    IN  severity_impact * condition_weight * condition.confidence

RECURSIVE TotalDeduction(_)
TotalDeduction(conditions) ==
    IF conditions = <<>> THEN 0
    ELSE Deduction(Head(conditions)) + TotalDeduction(Tail(conditions))

\* no lower limit
FlooredAtZero_NoFloor(score) == score

\* max(0.0, base_score - total_deduction)
FlooredAtZero(score) == IF score < 0 THEN 0 ELSE score

\* round(final_score, 1): the nearest tenth of a point.  Half way between
\* two tenths the binary value of the float decides (98.65 gives 98.7 and
\* 99.25 gives 99.2), so both neighbours are possible results.
RoundedToTenth(score) ==
    LET rest == score % 100
        down == score - rest
    IN  IF rest = 0 THEN {score}
        ELSE IF rest < 50 THEN {down}
        ELSE IF rest > 50 THEN {down + 100}
        ELSE {down, down + 100}

\* the scores that the method can return
calculate_health_score(conditions) ==
    IF conditions = <<>>
    THEN {85000}
    ELSE RoundedToTenth(FlooredAtZero(100000 - TotalDeduction(conditions)))

----------------------------------------------------------------------------
(* The health score on bounded inputs *)

\* DetectedCondition values: the largest deduction (18 points), one that is
\* not a multiple of a tenth (3.06), none (0), and one that is half way
\* between two tenths when taken twice (14.025)
HealthConditions ==
    {[condition_type |-> "acne", severity |-> "severe", confidence |-> 100],
     [condition_type |-> "acne", severity |-> "mild", confidence |-> 85],
     [condition_type |-> "pores", severity |-> "none", confidence |-> 85],
     [condition_type |-> "dark_spots", severity |-> "severe", confidence |-> 85]}

InitHealth ==
    /\ dirExists = TRUE
    /\ files = {}
    /\ returned = {}
    /\ request = NoRequest
    /\ response = NoResponse
    /\ engine = EngineInit
    /\ pending = {}
    /\ alone = <<>>
    /\ engineIn \in [fn : {"health"},
                      conditions : SeqsUpTo(HealthConditions, MaxDetected)]
    /\ engineOut = NoResult

HealthScore ==
    /\ engineIn.fn = "health"
    /\ engineOut = NoResult
    /\ \E score \in calculate_health_score(engineIn.conditions) :
          engineOut' = [fn |-> "health", score |-> score]
    /\ UNCHANGED <<httpVars, engineState, engineIn>>

NextHealth == HealthScore

SpecHealth == InitHealth /\ [][NextHealth]_vars

\* 100 minus the sum of the deductions, not below 0
ExactScore(conditions) ==
    LET left == 100000 - TotalDeduction(conditions)
    IN  IF left > 0 THEN left ELSE 0

\* C14 as stated: the score is in [0, 100]; it is 85.0 for the empty list
\* and otherwise exactly 100 minus the sum of the deductions, floored at 0
C14_ExactDeduction ==
    engineOut.fn = "health" =>
        /\ engineOut.score \in 0..100000
        /\ engineIn.conditions = <<>> => engineOut.score = 85000
        /\ engineIn.conditions # <<>> =>
              engineOut.score = ExactScore(engineIn.conditions)

\* C14: the score is in [0, 100]; it is 85.0 for the empty list and
\* otherwise 100 minus the sum of the deductions, floored at 0 and rounded
\* to a tenth of a point (at most 0.05 away from the unrounded value)
C14_RoundedDeduction ==
    engineOut.fn = "health" =>
        /\ engineOut.score \in 0..100000
        /\ engineIn.conditions = <<>> => engineOut.score = 85000
        /\ engineIn.conditions # <<>> =>
              LET exact == ExactScore(engineIn.conditions) IN
              /\ engineOut.score % 100 = 0
              /\ engineOut.score - exact \in -50..50

\* the deductions of a list exceed 100 points and the score is 0
C14_Witness ==
    /\ engineOut.fn = "health"
    /\ TotalDeduction(engineIn.conditions) > 100000
    /\ engineOut.score = 0

----------------------------------------------------------------------------
(* RecommendationEngine._get_products_for_category on bounded inputs *)

\* ProductCategory
ProductCategories ==
    {"cleanser", "toner", "serum", "moisturizer", "sunscreen", "treatment",
     "exfoliant", "mask", "eye_cream"}

InitCategory ==
    /\ dirExists = TRUE
    /\ files = {}
    /\ returned = {}
    /\ request = NoRequest
    /\ response = NoResponse
    /\ engine = EngineInit
    /\ pending = {}
    /\ alone = <<>>
    /\ engineIn \in [fn : {"category"},
                      category : ProductCategories,
                      conditions : SeqsUpTo(SelectorConditions, MaxPriority)]
    /\ engineOut = NoResult

ProductsForCategory ==
    /\ engineIn.fn = "category"
    /\ engineOut = NoResult
    /\ engineOut' = [fn |-> "category",
                     products |-> get_products_for_category(engineIn.category,
                                                            engineIn.conditions)]
    /\ UNCHANGED <<httpVars, engineState, engineIn>>

NextCategory == ProductsForCategory

SpecCategory == InitCategory /\ [][NextCategory]_vars

\* the catalog list of a category, empty for a category without entry
CategoryList(category) ==
    IF category \in DOMAIN product_database THEN product_database[category] ELSE <<>>

\* the positions in the category list of the products that target one of the
\* conditions
Targeting(category, conditions) ==
    {i \in 1..Len(CategoryList(category)) :
        Range(CategoryList(category)[i].target_conditions)
            \cap {conditions[k].condition_type : k \in 1..Len(conditions)} # {}}

\* C16: the result is the category list restricted to the products that
\* target one of the prioritized conditions, in catalog order, when there is
\* such a product, and the whole category list otherwise; it is empty only
\* for a category without products
C16_RelevantOrWholeCategory ==
    engineOut.fn = "category" =>
        LET all == CategoryList(engineIn.category)
            hits == Targeting(engineIn.category, engineIn.conditions)
            got == engineOut.products
        IN  /\ hits # {} =>
                /\ Len(got) = Cardinality(hits)
                /\ \A k \in 1..Len(got) :
                      \E i \in hits :
                          /\ got[k] = all[i]
                          /\ Cardinality({j \in hits : j < i}) = k - 1
            /\ hits = {} => got = all
            /\ got = <<>> <=> all = <<>>

\* the sunscreen list is returned although its only product targets nothing
C16_Witness ==
    /\ engineOut.fn = "category"
    /\ engineIn.category = "sunscreen"
    /\ engineIn.conditions # <<>>
    /\ Targeting("sunscreen", engineIn.conditions) = {}
    /\ engineOut.products = <<sunscreen_001>>

----------------------------------------------------------------------------
(* _select_best_product and _calculate_budget_score on bounded inputs *)

MaxCandidates == 2

\* The scores of the model are exact thousandths; the code adds floats.  The
\* two agree on the order of every two catalog products for every profile
\* and budget, except that for budget "low" and no personalization
\* 0.85 + 0.1 (cleanser_002) and 0.9 + 0.05 (moisturizer_002) differ in the
\* last bit; the two are not drawn into one candidate list (no category and
\* no targeted list of the catalog holds both).
CandidateLists ==
    {c \in SeqsUpTo(CatalogProducts, MaxCandidates) :
        ~({cleanser_002, moisturizer_002} \subseteq Range(c))}

\* price_range is free text (Optional[str]): the prices of the catalog, no
\* price, a price with "40", a price without "$", and one with "30" only
PriceRanges ==
    {p.price_range : p \in CatalogProducts}
    \cup {<<>>,
          <<"$", "2", "5", "-", "4", "0">>,
          <<"1", "5", "-", "2", "0">>,
          <<"3", "0">>}

PricedProducts ==
    {[p EXCEPT !.price_range = price] : p \in {cleanser_001, serum_001}, price \in PriceRanges}

\* budget_preference is free text as well
BudgetLabels == {"low", "medium", "high", "luxury"}

InitBest ==
    /\ dirExists = TRUE
    /\ files = {}
    /\ returned = {}
    /\ request = NoRequest
    /\ response = NoResponse
    /\ engine = EngineInit
    /\ pending = {}
    /\ alone = <<>>
    /\ engineIn \in [fn : {"best"},
                      products : CandidateLists,
                      user_profile : UserProfiles,
                      budget_preference : BudgetPreferences]
                    \cup [fn : {"budget"},
                          product : PricedProducts,
                          budget_preference : BudgetLabels]
    /\ engineOut = NoResult

SelectBest ==
    /\ engineIn.fn = "best"
    /\ engineOut = NoResult
    /\ engineOut' = [fn |-> "best",
                     best_product |-> select_best_product(engineIn.products,
                                                          engineIn.user_profile,
                                                          engineIn.budget_preference)]
    /\ UNCHANGED <<httpVars, engineState, engineIn>>

BudgetScore ==
    /\ engineIn.fn = "budget"
    /\ engineOut = NoResult
    /\ engineOut' = [fn |-> "budget",
                     budget_score |-> calculate_budget_score(engineIn.product,
                                                             engineIn.budget_preference)]
    /\ UNCHANGED <<httpVars, engineState, engineIn>>

NextBest == SelectBest \/ BudgetScore

SpecBest == InitBest /\ [][NextBest]_vars

\* the budget term of a product, as C17 and C18 describe it: 1.0 or 0.5 by
\* "30" for low, 1.0 or 0.8 by "30" or "40" for high, 0.9 otherwise
StatedBudgetScore(product, budget_preference) ==
    IF budget_preference = "low"
    THEN IF ~Contains(<<"3", "0">>, product.price_range) THEN 100 ELSE 50
    ELSE IF budget_preference = "high"
    THEN IF \/ Contains(<<"3", "0">>, product.price_range)
            \/ Contains(<<"4", "0">>, product.price_range)
         THEN 100 ELSE 80
    ELSE 90

\* the score as C17 describes it, in thousandths: the personalization term
\* for every profile that is not null, the budget term for every budget
\* preference that is not null
StatedScore(product, user_profile, budget_preference) ==
    10 * product.recommendation_confidence
    + (IF ~user_profile.none THEN 2 * product.personalization_score ELSE 0)
    + (IF ~budget_preference.none
       THEN StatedBudgetScore(product, budget_preference.value)
       ELSE 0)

\* C17: the product returned is the first one of maximal score, the score
\* being recommendation_confidence, plus 0.2 x personalization_score for
\* every non-null profile (the empty one included), plus 0.1 x budget score
\* for every non-null budget preference; None is returned for the empty
\* list only
C17_FirstOfMaximalStatedScore ==
    engineOut.fn = "best" =>
        LET products == engineIn.products
            score(i) == StatedScore(products[i], engineIn.user_profile,
                                    engineIn.budget_preference)
        IN  /\ engineOut.best_product.none <=> products = <<>>
            /\ products # <<>> =>
                  \E i \in 1..Len(products) :
                      /\ engineOut.best_product = Some(products[i])
                      /\ \A j \in 1..Len(products) : score(j) <= score(i)
                      /\ \A j \in 1..(i - 1) : score(j) < score(i)

\* the first candidate of maximal score when the budget term is left out
FirstBestWithoutBudget(products, user_profile) ==
    LET score(i) == 10 * products[i].recommendation_confidence
                    + (IF TruthyDict(user_profile)
                       THEN 2 * products[i].personalization_score
                       ELSE 0)
    IN  {products[i] : i \in {k \in 1..Len(products) :
                                /\ \A j \in 1..Len(products) : score(j) <= score(k)
                                /\ \A j \in 1..(k - 1) : score(j) < score(k)}}

\* a budget of "medium" selects what no budget preference selects
MediumChangesNothing ==
    (/\ engineOut.fn = "best"
     /\ engineIn.budget_preference = Some("medium")
     /\ engineIn.products # <<>>) =>
        /\ ~engineOut.best_product.none
        /\ engineOut.best_product.value
              \in FirstBestWithoutBudget(engineIn.products, engineIn.user_profile)

\* C18 as stated: for "low" the budget score is 1.0 for every price that
\* does not contain "30"; for "high" it is 1.0 for a price that contains
\* "30" or "40" and 0.8 otherwise; for "medium" it is 0.9, and a "medium"
\* budget selects what no budget preference selects
C18_LowByThirtyAlone ==
    /\ engineOut.fn = "budget" =>
          LET price == engineIn.product.price_range
              budget_score == engineOut.budget_score
          IN  /\ (engineIn.budget_preference = "low" /\ ~Contains(<<"3", "0">>, price))
                    => budget_score = 100
              /\ engineIn.budget_preference = "high" =>
                    budget_score = IF \/ Contains(<<"3", "0">>, price)
                                      \/ Contains(<<"4", "0">>, price)
                                   THEN 100 ELSE 80
              /\ engineIn.budget_preference = "medium" => budget_score = 90
    /\ MediumChangesNothing

\* C18: for "low" the budget score is 1.0 for every price that contains "$"
\* and does not contain "30" (a product without price counts as "$0-50") and
\* 0.5 for every other price; for "high" it is 1.0 for a price that contains
\* "30" or "40" and 0.8 otherwise; for "medium" it is 0.9, and a "medium"
\* budget selects what no budget preference selects
C18_LowByDollarAndThirty ==
    /\ engineOut.fn = "budget" =>
          LET price == engineIn.product.price_range
              budget_score == engineOut.budget_score
          IN  /\ engineIn.budget_preference = "low" =>
                    budget_score =
                        IF \/ price = <<>>
                           \/ Contains(<<"$">>, price) /\ ~Contains(<<"3", "0">>, price)
                        THEN 100 ELSE 50
              /\ engineIn.budget_preference = "high" =>
                    budget_score = IF \/ Contains(<<"3", "0">>, price)
                                      \/ Contains(<<"4", "0">>, price)
                                   THEN 100 ELSE 80
              /\ engineIn.budget_preference = "medium" => budget_score = 90
    /\ MediumChangesNothing

\* a "low" budget scored a price without "$" and without "30" 0.5
C18_Witness ==
    /\ engineOut.fn = "budget"
    /\ engineIn.budget_preference = "low"
    /\ engineIn.product.price_range = <<"1", "5", "-", "2", "0">>
    /\ engineOut.budget_score = 50

----------------------------------------------------------------------------
(* The targeted treatments of the selector (checked under SpecSelect) *)

\* the template that the selector uses for a label
TemplateOf(routine_complexity) ==
    IF routine_complexity \in DOMAIN routine_templates
    THEN routine_templates[routine_complexity]
    ELSE routine_templates["beginner"]

\* the best serum or treatment for the k-th prioritized condition
BestTreatment(k) ==
    select_best_product(get_targeted_treatments(engineIn.priority_conditions[k]),
                        engineIn.user_profile, engineIn.budget_preference)

\* the products chosen for the required categories: every required category
\* of the templates has products, so they are the first entries of the result
RequiredPart ==
    SubSeq(engineOut.products, 1,
           Len(TemplateOf(engineIn.routine_complexity).required_categories))

TargetedPart ==
    SubSeq(engineOut.products,
           Len(TemplateOf(engineIn.routine_complexity).required_categories) + 1,
           Len(engineOut.products))

\* the k-th condition brings a product that is not chosen yet
BringsNew(k) ==
    /\ ~BestTreatment(k).none
    /\ BestTreatment(k).value \notin Range(RequiredPart)
    /\ \A j \in 1..(k - 1) : BestTreatment(j) # BestTreatment(k)

\* C19: the targeted additions are, in the order of the prioritized
\* conditions, the best serum or treatment of each condition that is not
\* chosen already, up to max_actives of them; a condition whose best product
\* is already chosen adds nothing and does not count
C19_TargetedAdditions ==
    engineOut.fn = "select" =>
        LET conditions == engineIn.priority_conditions
            max_actives == TemplateOf(engineIn.routine_complexity).max_actives
            new == {k \in 1..Len(conditions) : BringsNew(k)}
        IN  /\ Len(TargetedPart) <= max_actives
            /\ Len(TargetedPart) =
                  IF Cardinality(new) < max_actives THEN Cardinality(new) ELSE max_actives
            /\ \A m \in 1..Len(TargetedPart) :
                  \E k \in new :
                      /\ TargetedPart[m] = BestTreatment(k).value
                      /\ Cardinality({j \in new : j < k}) = m - 1

\* the best product of the first two conditions is already chosen for a
\* required category, and the third condition still adds its treatment
C19_Witness ==
    /\ engineOut.fn = "select"
    /\ Len(engineIn.priority_conditions) = 3
    /\ ~BringsNew(1) /\ ~BestTreatment(1).none
    /\ ~BringsNew(2) /\ ~BestTreatment(2).none
    /\ BringsNew(3)
    /\ Len(TargetedPart) = 1
    /\ TemplateOf(engineIn.routine_complexity).max_actives = 2

----------------------------------------------------------------------------
(* The order of the prioritizer without focus areas (checked under SpecPrio) *)

\* x ranks strictly before y: a condition that is not of severity none before
\* one that is, then the higher confidence, then severe before not severe
RanksBefore(x, y) ==
    LET some(c) == c.severity # "none"
        severe(c) == c.severity = "severe"
    IN  \/ some(x) /\ ~some(y)
        \/ some(x) = some(y) /\ x.confidence > y.confidence
        \/ some(x) = some(y) /\ x.confidence = y.confidence /\ severe(x) /\ ~severe(y)

\* the number of input positions that come before position a in the output:
\* those of a condition ranking before, and the earlier ones of equal rank
PositionsBefore(a) ==
    Cardinality({b \in 1..Len(engineIn.conditions) :
                    \/ RanksBefore(engineIn.conditions[b], engineIn.conditions[a])
                    \/ /\ b < a
                       /\ ~RanksBefore(engineIn.conditions[a], engineIn.conditions[b])})

\* C20: without focus areas the output is the first three of the input
\* ordered by (severity is not none, confidence, severity is severe),
\* descending: among the conditions that are not of severity none the higher
\* confidence comes first whatever the severities, severe decides between
\* equal confidences only, and conditions equal in all three keep their
\* input order
C20_OrderWithoutFocus ==
    (engineOut.fn = "prioritize" /\ ~Truthy(engineIn.focus_areas)) =>
        LET n == Len(engineIn.conditions)
            got == engineOut.priority_conditions
        IN  /\ Len(got) = IF n < 3 THEN n ELSE 3
            /\ \A a \in 1..n :
                  PositionsBefore(a) < 3 => got[PositionsBefore(a) + 1] = engineIn.conditions[a]

\* without focus areas a mild condition of confidence 0.85 is placed before
\* a severe one of confidence 0.78, which was first in the input, and two
\* conditions of equal keys follow in their input order
C20_Witness ==
    /\ engineOut.fn = "prioritize"
    /\ engineIn.focus_areas = None
    /\ Len(engineIn.conditions) = 4
    /\ engineIn.conditions[1].severity = "severe" /\ engineIn.conditions[1].confidence = 78
    /\ engineIn.conditions[2].severity = "mild" /\ engineIn.conditions[2].confidence = 85
    /\ engineIn.conditions[3] = [condition_type |-> "acne", severity |-> "mild", confidence |-> 78]
    /\ engineIn.conditions[4] = [condition_type |-> "dryness", severity |-> "mild", confidence |-> 78]
    /\ engineOut.priority_conditions =
          <<engineIn.conditions[2], engineIn.conditions[1], engineIn.conditions[3]>>

----------------------------------------------------------------------------
(* The order and the weekly list of the routine (checked under SpecRoutine) *)

\* the input positions whose product belongs to a list of the routine
Members(list) ==
    {a \in 1..Len(engineIn.products) :
        LET p == engineIn.products[a] IN
        CASE list = "morning_routine" -> p.time_of_day \in {"morning", "both"}
          [] list = "evening_routine" -> p.time_of_day \in {"evening", "both"}
          [] list = "weekly_treatments" ->
                \E k \in 0..(Len(p.usage_frequency) - 4) :
                    SubSeq(p.usage_frequency, k + 1, k + 4) = <<"w", "e", "e", "k">>}

\* the members of a list that come before member a: those of a smaller
\* application_order, and the earlier ones of the same application_order
MembersBefore(list, a) ==
    {b \in Members(list) :
        \/ engineIn.products[b].application_order < engineIn.products[a].application_order
        \/ /\ engineIn.products[b].application_order = engineIn.products[a].application_order
           /\ b < a}

RoutineLists == {"morning_routine", "evening_routine", "weekly_treatments"}

\* C21: the morning, evening and weekly lists are each in non-decreasing
\* application_order, and products of equal application_order are in the
\* order in which the selector returned them
C21_ListsInApplicationOrder ==
    engineOut.fn = "routine" =>
        \A list \in RoutineLists :
            LET got == engineOut.routine[list] IN
            /\ \A i, j \in 1..Len(got) :
                  i < j => got[i].application_order <= got[j].application_order
            /\ Len(got) = Cardinality(Members(list))
            /\ \A a \in Members(list) :
                  got[Cardinality(MembersBefore(list, a)) + 1] = engineIn.products[a]

\* the selector's list was not in application order, and two different
\* products of one application_order are in the evening list
C21_Witness ==
    /\ engineOut.fn = "routine"
    /\ Len(engineIn.products) = 3
    /\ engineIn.products[1].application_order > engineIn.products[3].application_order
    /\ \E i, j \in 1..Len(engineOut.routine.evening_routine) :
          /\ i < j
          /\ engineOut.routine.evening_routine[i] # engineOut.routine.evening_routine[j]
          /\ engineOut.routine.evening_routine[i].application_order
                = engineOut.routine.evening_routine[j].application_order

\* C22: a product is in weekly_treatments exactly if its usage_frequency
\* contains "week", and a weekly product is in its daily list or lists as
\* well
C22_WeeklyAndDaily ==
    engineOut.fn = "routine" =>
        \A a \in 1..Len(engineIn.products) :
            LET p == engineIn.products[a]
                in(list) == \E i \in 1..Len(engineOut.routine[list]) :
                                engineOut.routine[list][i] = p
            IN  /\ in("weekly_treatments") <=> a \in Members("weekly_treatments")
                /\ in("weekly_treatments") =>
                      /\ p.time_of_day \in {"morning", "both"} => in("morning_routine")
                      /\ p.time_of_day \in {"evening", "both"} => in("evening_routine")
                      /\ in("morning_routine") \/ in("evening_routine")

\* a routine with a weekly product, listed in the weekly list and in the
\* evening list, and a product that is not weekly
C22_Witness ==
    /\ engineOut.fn = "routine"
    /\ Members("weekly_treatments") # {}
    /\ Members("weekly_treatments") # 1..Len(engineIn.products)
    /\ engineOut.routine.weekly_treatments # <<>>
    /\ Head(engineOut.routine.weekly_treatments)
          \in {engineOut.routine.evening_routine[i] :
                  i \in 1..Len(engineOut.routine.evening_routine)}

----------------------------------------------------------------------------
(* SkinAnalyzer._detailed_analysis *)

\* settings.MODEL_CONFIDENCE_THRESHOLD, in hundredths
MODEL_CONFIDENCE_THRESHOLD == 70

\* self.supported_conditions
supported_conditions ==
    <<"acne", "wrinkles", "dark_spots", "oiliness", "dryness", "pores", "pigmentation">>

\* random.uniform(0.3, 0.95), in hundredths: the threshold itself, the two
\* limits of the severity bands, and the largest value
DrawnConfidences == {70, 80, 90, 95}

\* the threshold is included
AboveThreshold_Inclusive(confidence) == confidence >= MODEL_CONFIDENCE_THRESHOLD

\* confidence > settings.MODEL_CONFIDENCE_THRESHOLD
AboveThreshold(confidence) == confidence > MODEL_CONFIDENCE_THRESHOLD

\* _mock_severity_prediction: the values that random.choice can return
mock_severity_prediction(condition_type, confidence) ==
    IF confidence > 90 THEN {"moderate", "severe"}
    ELSE IF confidence > 80 THEN {"mild", "moderate"}
    ELSE {"none", "mild"}

\* _mock_bounding_boxes returns a list of 1 to 3 random boxes; the model
\* keeps only that the list is there
mock_bounding_boxes(severity) ==
    IF severity # "none" THEN Some("boxes") ELSE None

\* a drawn confidence with a severity that random.choice can return for it
Draws(condition_type) ==
    {draw \in DrawnConfidences \X {"none", "mild", "moderate", "severe"} :
        draw[2] \in mock_severity_prediction(condition_type, draw[1])}

\* the DetectedCondition built in the loop body
Detected(condition_type, confidence, severity) ==
    [condition_type |-> condition_type,
     severity |-> severity,
     confidence |-> confidence,
     bounding_boxes |-> mock_bounding_boxes(severity)]

\* the conditions list after one pass of the loop body for condition_type:
\* every list that the draws can produce
DetailedIteration(conditions, condition_type) ==
    {IF AboveThreshold(draw[1])
     THEN Append(conditions, Detected(condition_type, draw[1], draw[2]))
     ELSE conditions : draw \in Draws(condition_type)}

----------------------------------------------------------------------------
(* The detailed analysis, one condition kind after the other *)

InitDetailed ==
    /\ dirExists = TRUE
    /\ files = {}
    /\ returned = {}
    /\ request = NoRequest
    /\ response = NoResponse
    /\ engine = EngineInit
    /\ pending = {}
    /\ alone = <<>>
    /\ engineIn = [fn |-> "detailed", kinds |-> supported_conditions]
    /\ engineOut = [fn |-> "detailed", analysed |-> 0, conditions |-> <<>>]

\* for condition_type in self.supported_conditions: one pass of the body
AnalyseKind ==
    /\ engineIn.fn = "detailed"
    /\ engineOut.analysed < Len(engineIn.kinds)
    /\ \E conditions \in DetailedIteration(engineOut.conditions,
                                           engineIn.kinds[engineOut.analysed + 1]) :
          engineOut' = [fn |-> "detailed",
                        analysed |-> engineOut.analysed + 1,
                        conditions |-> conditions]
    /\ UNCHANGED <<httpVars, engineState, engineIn>>

NextDetailed == AnalyseKind

SpecDetailed == InitDetailed /\ [][NextDetailed]_vars

\* C23: in detailed mode the analyzer returns at most one condition per
\* supported kind, every returned condition has a confidence strictly above
\* the threshold, its severity is in the band of its confidence (above 0.9
\* moderate or severe, above 0.8 up to 0.9 mild or moderate, up to 0.8 none
\* or mild), and its bounding boxes are absent exactly when the severity is
\* none.
C23_DetailedConditions ==
    (engineOut # NoResult /\ engineOut.fn = "detailed") =>
        LET conditions == engineOut.conditions
        IN /\ \A i, j \in 1..Len(conditions) :
                 conditions[i].condition_type = conditions[j].condition_type => i = j
           /\ \A i \in 1..Len(conditions) :
                 LET c == conditions[i]
                 IN /\ c.condition_type \in Range(supported_conditions)
                    /\ c.confidence > MODEL_CONFIDENCE_THRESHOLD
                    /\ c.confidence > 90 => c.severity \in {"moderate", "severe"}
                    /\ (c.confidence > 80 /\ c.confidence <= 90) =>
                          c.severity \in {"mild", "moderate"}
                    /\ c.confidence <= 80 => c.severity \in {"none", "mild"}
                    /\ (c.bounding_boxes = None) <=> (c.severity = "none")

\* the analysis has gone through every kind, has left some kinds out, and has
\* returned a condition of every severity, one of them at confidence 0.8
C23_Witness ==
    /\ engineOut # NoResult
    /\ engineOut.fn = "detailed"
    /\ engineOut.analysed = Len(supported_conditions)
    /\ Len(engineOut.conditions) = 5
    /\ \A s \in {"none", "mild", "moderate", "severe"} :
          \E i \in 1..Len(engineOut.conditions) : engineOut.conditions[i].severity = s
    /\ \E i \in 1..Len(engineOut.conditions) :
          /\ engineOut.conditions[i].confidence = 80
          /\ engineOut.conditions[i].bounding_boxes = None

----------------------------------------------------------------------------
(* The products of the selector, one by one (checked under SpecSelect) *)

\* C24: the list returned by _recommend_products never holds the same
\* product twice
C24_NoProductTwice ==
    engineOut.fn = "select" =>
        \A i, j \in 1..Len(engineOut.products) :
            engineOut.products[i].product_id = engineOut.products[j].product_id => i = j

\* a serum is chosen for the required category serum and is also the best
\* treatment of two prioritized conditions
C24_Witness ==
    /\ engineOut.fn = "select"
    /\ "serum" \in Range(TemplateOf(engineIn.routine_complexity).required_categories)
    /\ Len(engineIn.priority_conditions) >= 2
    /\ BestTreatment(1) = BestTreatment(2)
    /\ ~BestTreatment(1).none
    /\ BestTreatment(1).value \in Range(engineOut.products)
    /\ BestTreatment(1).value.category = "serum"

\* the list that _recommend_products has built when it reaches its return
\* statement, before the cut at max_products
BeforeCut ==
    LET template == TemplateOf(engineIn.routine_complexity)
    IN  AddTargeted(engineIn.priority_conditions,
                    AddRequired(template.required_categories, <<>>,
                                engineIn.priority_conditions,
                                engineIn.user_profile, engineIn.budget_preference),
                    0, template.max_actives,
                    engineIn.user_profile, engineIn.budget_preference)

\* C25: in every template the number of required categories plus max_actives
\* is at most max_products, so the cut at max_products removes no product,
\* and the result holds a product of every required category of the template
\* used
C25_CutRemovesNothing ==
    /\ \A label \in DOMAIN engine.routine_templates :
          LET template == engine.routine_templates[label]
          IN  Len(template.required_categories) + template.max_actives
                  <= template.max_products
    /\ engineOut.fn = "select" =>
          /\ engineOut.products = BeforeCut
          /\ \A category \in Range(TemplateOf(engineIn.routine_complexity).required_categories) :
                \E i \in 1..Len(engineOut.products) :
                    engineOut.products[i].category = category

\* an intermediate routine filled to its 6 products: four required ones and
\* two targeted treatments
C25_Witness ==
    /\ engineOut.fn = "select"
    /\ engineIn.routine_complexity = "intermediate"
    /\ Len(BeforeCut) = 6
    /\ Len(engineOut.products) = 6

----------------------------------------------------------------------------
(* Two calls of generate_recommendations (checked under SpecGenerate) *)

\* the three product lists and the general advice of a response
ListsAndAdvice(recommendations) ==
    <<recommendations.skincare_routine.morning_routine,
      recommendations.skincare_routine.evening_routine,
      recommendations.skincare_routine.weekly_treatments,
      recommendations.general_advice>>

\* C26: two calls of generate_recommendations with the same
\* routine_complexity return the same morning, evening and weekly lists and
\* the same general advice, whatever their user_profile, budget_preference
\* and focus_areas (analysis_id is only copied into the response)
C26_ListsDependOnComplexityOnly ==
    [][(/\ engineOut.fn = "recommend"
        /\ engineOut'.fn = "recommend"
        /\ engineIn'.request.routine_complexity = engineIn.request.routine_complexity)
       => ListsAndAdvice(engineOut'.recommendations)
              = ListsAndAdvice(engineOut.recommendations)]_vars


\* a call with a profile, a low budget and two focus areas that put the mock
\* conditions in another order, answered with a routine
C26_Witness ==
    /\ engineOut.fn = "recommend"
    /\ engineIn.request.user_profile = Some({<<"skin_type", "oily">>})
    /\ engineIn.request.budget_preference = Some("low")
    /\ engineIn.request.focus_areas = Some(<<"oiliness", "pores">>)
    /\ engineIn.request.routine_complexity = "intermediate"
    /\ engineOut.recommendations.priority_conditions[1].condition = "pores"
    /\ Len(engineOut.recommendations.skincare_routine.morning_routine) > 0
    /\ Len(engineOut.recommendations.skincare_routine.evening_routine) > 0

----------------------------------------------------------------------------
(* The file that /analyze processes (checked under Spec) *)

\* C27: /analyze called with upload_id X processes only the file that the
\* upload which returned X wrote: X is an identifier that an upload has
\* returned and the processed file is the one named X.<extension>, also when X
\* is a proper prefix of another identifier
C27_OnlyTheFileOfTheUpload ==
    (request.op = "analyze" /\ response.file # <<>>)
        => /\ request.upload_id \in returned
           /\ StartsWith(response.file, request.upload_id \o <<".">>)

----------------------------------------------------------------------------
(* The complexity label within one recommendation (checked under SpecGenerate) *)

\* the confidence score that includes the modifier of "beginner": 0.8, the
\* part of the conditions, 0.1 for a profile and 0.05, at most 1; in units of
\* 1 / (1000 * n) for n prioritized conditions
ScoreWithBeginnerModifier(recommendations) ==
    LET conditions == recommendations.priority_conditions
        n == IF conditions = <<>> THEN 1 ELSE Len(conditions)
        sum == 800 * n
               + (IF conditions # <<>> THEN 2 * SumConfidence(conditions) - 140 * n ELSE 0)
               + (IF recommendations.personalized THEN 100 * n ELSE 0)
               + 50 * n
    IN  IF sum > 1000 * n THEN 1000 * n ELSE IF sum < 0 THEN 0 ELSE sum

\* C28: whenever the product selection uses the beginner template, for
\* "beginner" and for every unrecognised label, the time_commitment of the
\* routine is "3-5 minutes" and the confidence score includes the beginner
\* modifier +0.05
C28_BeginnerThroughout ==
    (/\ engineOut.fn = "recommend"
     /\ TemplateOf(engineIn.request.routine_complexity) = routine_templates["beginner"])
        => /\ engineOut.recommendations.skincare_routine.time_commitment = "3-5 minutes"
           /\ engineOut.recommendations.confidence_score.num
                 = ScoreWithBeginnerModifier(engineOut.recommendations)

----------------------------------------------------------------------------
(* The health score of a longer list (checked under SpecHealth) *)

\* C29: detecting more never raises the health score: the score of a list
\* L + [c] is at most the score of L, also for the empty L (where a half-way
\* value can be rounded either way, at most one of the scores of L)
C29_MoreNeverRaises ==
    (engineOut.fn = "health" /\ engineIn.conditions # <<>>)
        => \E without \in calculate_health_score(
                              SubSeq(engineIn.conditions, 1, Len(engineIn.conditions) - 1)) :
              engineOut.score <= without

----------------------------------------------------------------------------
(* Ingredients to avoid (checked under SpecSelect) *)

\* the avoid_ingredients that the recommendation rules list for a condition
\* kind; the rules have no entry for pores and pigmentation
AvoidIngredients(condition_type) ==
    IF condition_type \in DOMAIN engine.recommendation_rules
    THEN Range(engine.recommendation_rules[condition_type].avoid_ingredients)
    ELSE {}

\* C30: for every list of prioritized conditions and every template, no
\* product returned by _recommend_products has a key ingredient that the
\* recommendation rules list under avoid_ingredients for one of the
\* prioritized conditions
C30_NoAvoidedIngredient ==
    engineOut.fn = "select" =>
        \A i \in 1..Len(engineOut.products) :
            \A k \in 1..Len(engineIn.priority_conditions) :
                Range(engineOut.products[i].key_ingredients)
                    \cap AvoidIngredients(engineIn.priority_conditions[k].condition_type)
                  = {}

============================================================================
